---------------------------- MODULE Spec2Model ----------------------------
(***************************************************************************)
(* A model of oculante's image_editing.rs: the ImageOperation enum, its    *)
(* classification (is_per_pixel), the per-pixel evaluator (process_pixel), *)
(* the parallel sweep (process_pixels), the whole-image evaluator          *)
(* (process_image) and the crop normaliser (cropped_range).                *)
(*                                                                         *)
(* The source computes in IEEE-754 binary32.  The first part of the module *)
(* is that arithmetic (round to nearest, ties to even) over integers that  *)
(* stay below 2^31, so that rounding, truncation and saturation are what   *)
(* the compiled code does and not an idealisation over the reals.          *)
(***************************************************************************)
EXTENDS Integers, Sequences, FiniteSets, TLC

(***************************************************************************)
(* binary32 values.  A finite value is (-1)^s * m * 2^e with m = 0 or      *)
(* 2^23 <= m < 2^24.  Subnormals are not represented: no value of the      *)
(* modelled computations comes near 2^-126.                                *)
(***************************************************************************)
Pow2(n) == 2 ^ n

F32(k, s, m, e) == [k |-> k, s |-> s, m |-> m, e |-> e]

NaN32 == F32("nan", 0, 0, 0)

Inf32(s) == F32("inf", s, 0, 0)

Zero32(s) == F32("fin", s, 0, 0)

IsNaN(a) == a.k = "nan"

IsInf(a) == a.k = "inf"

IsFinite(a) == a.k = "fin"

IsZero(a) == a.k = "fin" /\ a.m = 0

RECURSIVE BitLen(_)
BitLen(n) == IF n = 0 THEN 0 ELSE 1 + BitLen(n \div 2)

\* A normalised finite value, or infinity when the exponent leaves binary32.
Fin32(s, m, e) == IF e > 104 THEN Inf32(s) ELSE F32("fin", s, m, e)

\* (M + f) * 2^e, where 0 < f < 1 iff sticky, rounded to 24 significant bits,
\* to nearest, ties to even.  M < 2^31; sticky only with M >= 2^25.
RoundF32(s, M, e, sticky) ==
    IF M = 0 THEN Zero32(s)
    ELSE LET len == BitLen(M)
             sh  == len - 24
         IN  IF sh <= 0 THEN Fin32(s, M * Pow2(0 - sh), e + sh)
             ELSE LET q    == M \div Pow2(sh)
                      r    == M % Pow2(sh)
                      half == Pow2(sh - 1)
                      up   == r > half \/ (r = half /\ (sticky \/ q % 2 = 1))
                      q2   == IF up THEN q + 1 ELSE q
                  IN  IF q2 = Pow2(24) THEN Fin32(s, Pow2(23), e + sh + 1)
                      ELSE Fin32(s, q2, e + sh)

\* `n as f32` for an integer n, |n| < 2^31.
FromInt(n) == RoundF32(IF n < 0 THEN 1 ELSE 0, IF n < 0 THEN 0 - n ELSE n, 0, FALSE)

Neg32(a) == [a EXCEPT !.s = 1 - a.s]

\* |a| < |b| for finite a, b.
MagLess(a, b) ==
    IF a.m = 0 THEN b.m # 0
    ELSE IF b.m = 0 THEN FALSE
    ELSE a.e < b.e \/ (a.e = b.e /\ a.m < b.m)

\* a < b (false when either is NaN).
Less32(a, b) ==
    IF IsNaN(a) \/ IsNaN(b) THEN FALSE
    ELSE IF IsInf(a) THEN a.s = 1 /\ ~(IsInf(b) /\ b.s = 1)
    ELSE IF IsInf(b) THEN b.s = 0
    ELSE IF a.m = 0 /\ b.m = 0 THEN FALSE
    ELSE IF a.s # b.s THEN a.s = 1
    ELSE IF a.s = 0 THEN MagLess(a, b) ELSE MagLess(b, a)

\* f32::max: the other operand when one is NaN.
Max32(a, b) ==
    IF IsNaN(a) THEN b
    ELSE IF IsNaN(b) THEN a
    ELSE IF Less32(a, b) THEN b ELSE a

\* The sum of two finite non-zero values, hi the one of larger exponent.
AddAligned(hi, lo) ==
    LET d  == hi.e - lo.e
        A  == hi.m * 64
        L  == lo.m * 64
        B  == IF d > 30 THEN 0 ELSE L \div Pow2(d)
        st == IF d > 30 THEN TRUE ELSE L % Pow2(d) # 0
    IN  IF hi.s # lo.s /\ A = B /\ ~st THEN Zero32(0)
        ELSE RoundF32(IF hi.s = lo.s \/ A > B THEN hi.s ELSE lo.s,
                      IF hi.s = lo.s THEN A + B
                      ELSE IF A > B THEN A - B - (IF st THEN 1 ELSE 0)
                      ELSE B - A,
                      hi.e - 6,
                      st /\ (hi.s = lo.s \/ A > B))

Add32(a, b) ==
    IF IsNaN(a) \/ IsNaN(b) THEN NaN32
    ELSE IF IsInf(a) THEN (IF IsInf(b) /\ a.s # b.s THEN NaN32 ELSE a)
    ELSE IF IsInf(b) THEN b
    ELSE IF a.m = 0 /\ b.m = 0 THEN Zero32(IF a.s = 1 /\ b.s = 1 THEN 1 ELSE 0)
    ELSE IF a.m = 0 THEN b
    ELSE IF b.m = 0 THEN a
    ELSE AddAligned(IF a.e >= b.e THEN a ELSE b, IF a.e >= b.e THEN b ELSE a)

Sub32(a, b) == Add32(a, Neg32(b))

\* The 48-bit product of two 24-bit significands, kept in two 24-bit halves.
Mul32(a, b) ==
    LET s == (a.s + b.s) % 2
    IN  IF IsNaN(a) \/ IsNaN(b) THEN NaN32
        ELSE IF IsInf(a) \/ IsInf(b)
             THEN (IF IsZero(a) \/ IsZero(b) THEN NaN32 ELSE Inf32(s))
        ELSE IF a.m = 0 \/ b.m = 0 THEN Zero32(s)
        ELSE LET a1  == a.m \div 4096
                 a0  == a.m % 4096
                 b1  == b.m \div 4096
                 b0  == b.m % 4096
                 mid == a1 * b0 + a0 * b1
                 low == a0 * b0 + (mid % 4096) * 4096
                 lo  == low % Pow2(24)
                 hi  == a1 * b1 + (mid \div 4096) + (low \div Pow2(24))
             IN  RoundF32(s, hi * 4 + (lo \div Pow2(22)), a.e + b.e + 22,
                          lo % Pow2(22) # 0)

\* n more quotient bits of r / d by long division: <<quotient, remainder>>.
RECURSIVE LongDiv(_, _, _, _)
LongDiv(r, d, n, q) ==
    IF n = 0 THEN <<q, r>>
    ELSE IF 2 * r >= d THEN LongDiv(2 * r - d, d, n - 1, 2 * q + 1)
    ELSE LongDiv(2 * r, d, n - 1, 2 * q)

Div32(a, b) ==
    LET s == (a.s + b.s) % 2
    IN  IF IsNaN(a) \/ IsNaN(b) THEN NaN32
        ELSE IF IsInf(a) THEN (IF IsInf(b) THEN NaN32 ELSE Inf32(s))
        ELSE IF IsInf(b) THEN Zero32(s)
        ELSE IF b.m = 0 THEN (IF a.m = 0 THEN NaN32 ELSE Inf32(s))
        ELSE IF a.m = 0 THEN Zero32(s)
        ELSE LET qr == LongDiv(a.m % b.m, b.m, 26, a.m \div b.m)
             IN  RoundF32(s, qr[1], a.e - b.e - 26, qr[2] # 0)

\* The integer part of a finite value of magnitude below 2^31.
TruncMag(a) ==
    IF a.m = 0 THEN 0
    ELSE IF a.e >= 0 THEN a.m * Pow2(a.e)
    ELSE IF a.e < 0 - 24 THEN 0
    ELSE a.m \div Pow2(0 - a.e)

\* `x as u8`: truncation toward zero, saturating, NaN to 0.
AsU8(a) ==
    IF IsNaN(a) THEN 0
    ELSE IF a.s = 1 THEN 0
    ELSE IF IsInf(a) THEN 255
    ELSE IF a.m # 0 /\ a.e > 0 - 15 THEN 255
    ELSE LET t == TruncMag(a) IN IF t > 255 THEN 255 ELSE t

\* `x as u32`: truncation toward zero, saturating below at 0; the modelled
\* inputs keep the result under 2^31.
AsU32(a) ==
    IF IsNaN(a) THEN 0
    ELSE IF a.s = 1 THEN 0
    ELSE TruncMag(a)


\* `x as i32`: truncation toward zero, saturating, NaN to 0; finite values of
\* the model stay below 2^31.
AsI32(a) ==
    IF IsNaN(a) THEN 0
    ELSE IF IsInf(a) THEN (IF a.s = 1 THEN 0 - 2147483647 - 1 ELSE 2147483647)
    ELSE IF a.s = 1 THEN 0 - TruncMag(a) ELSE TruncMag(a)

\* f32::round: to the nearest integer, halves away from zero; |a| < 2^23
\* has a fraction, larger values are integers already.
Round32(a) ==
    IF ~IsFinite(a) \/ a.m = 0 \/ a.e >= 0 THEN a
    ELSE LET t    == TruncMag(a)
             frac == IF a.e < 0 - 24 THEN 1 ELSE a.m % Pow2(0 - a.e)
             half == IF a.e < 0 - 24 THEN 2 ELSE Pow2(0 - a.e - 1)
             n    == IF frac >= half THEN t + 1 ELSE t
         IN  RoundF32(a.s, n, 0, FALSE)

\* 2_f32.powf(x) where x is an integer: the exact power of two.
Exp2Int(x) ==
    CASE IsFinite(x) /\ FromInt(AsI32(x)) = x -> Fin32(0, Pow2(23), AsI32(x) - 23)

One32 == FromInt(1)

\* A decimal literal num/den of the source, as the compiler rounds it.
Lit32(num, den) == Div32(FromInt(num), FromInt(den))

(***************************************************************************)
(* Program constants.                                                      *)
(***************************************************************************)
\* 1.0 of a crop coordinate (line 872).
CropUnit == 10000

\* 1.0 of a colour channel (line 851).
ChannelMax == 255

F255 == FromInt(ChannelMax)

(***************************************************************************)
(* ImageOperation.  An operation is <<kind, args>>, kind the variant's     *)
(* name and args its parameters in declaration order (booleans as 0/1,     *)
(* Channel as its discriminant 0..3).  Resize carries its dimensions only: *)
(* aspect is read by the UI alone and filter selects the library's kernel. *)
(* An Expression carries, in place of its text, the statements the text    *)
(* evaluates to: see EvalStatements.                                       *)
(***************************************************************************)
OpKinds ==
    {"Brightness", "Expression", "Desaturate", "Posterize", "Exposure",
     "Equalize", "Mult", "Add", "Fill", "Contrast", "Flip", "Noise", "Rotate",
     "HSV", "ChromaticAberration", "ChannelSwap", "Invert", "Blur", "MMult",
     "MDiv", "Resize", "Crop", "PixelShader"}

Kind(op) == op[1]

Args(op) == op[2]

\* is_per_pixel as it would be without its Flip arm.
is_per_pixel_flip(op) ==
    CASE Kind(op) = "Blur" -> FALSE
      [] Kind(op) = "Resize" -> FALSE
      [] Kind(op) = "Crop" -> FALSE
      [] Kind(op) = "Rotate" -> FALSE
      [] Kind(op) = "ChromaticAberration" -> FALSE
      [] OTHER -> TRUE

is_per_pixel(op) ==
    CASE Kind(op) = "Blur" -> FALSE
      [] Kind(op) = "Resize" -> FALSE
      [] Kind(op) = "Crop" -> FALSE
      [] Kind(op) = "Rotate" -> FALSE
      [] Kind(op) = "Flip" -> FALSE
      [] Kind(op) = "ChromaticAberration" -> FALSE
      [] OTHER -> TRUE

(***************************************************************************)
(* The pixel evaluator.  A pixel is <<r, g, b, a>> of binary32 values      *)
(* (Vector4<f32>); p[c + 1] is the source's p[c].                          *)
(***************************************************************************)
\* egui::lerp(a..=b, t) = (1 - t) * a + t * b
Lerp32(a, b, t) == Add32(Mul32(Sub32(One32, t), a), Mul32(t, b))

\* nalgebra's Vector::lerp, one component: axpy(t, rhs, 1 - t), which leaves
\* the old value out when its weight 1 - t is zero.
VecLerp32(y, x, t) ==
    LET beta == Sub32(One32, t)
    IN  IF IsZero(beta) THEN Mul32(t, x)
        ELSE Add32(Mul32(t, x), Mul32(beta, y))

(***************************************************************************)
(* Expression.  evalexpr is a library; the text of an expression is        *)
(* modelled by what evaluating it does, a sequence of statements           *)
(* <<what, var, val>> over the variables 1..4 (r, g, b, a):                *)
(*   "set"    var = FloatConsts[val]      a float literal is assigned      *)
(*   "copy"   var = variable val          another variable is assigned     *)
(*   "setint" var = val                   an integer is assigned           *)
(*   "undef"  evaluation fails here (an unbound identifier, a type error)  *)
(*   "syntax" the text does not parse: nothing is evaluated                *)
(* A context value is <<"Float", x>> or <<"Int", n>>.                      *)
(***************************************************************************)
FloatConsts == <<Zero32(0), Lit32(1, 2), One32, FromInt(3)>>

RECURSIVE EvalStatements(_, _)
EvalStatements(stmts, ctx) ==
    IF stmts = <<>> THEN [ok |-> TRUE, ctx |-> ctx]
    ELSE LET st == Head(stmts)
         IN  CASE st[1] = "set" ->
                    EvalStatements(Tail(stmts),
                        [ctx EXCEPT ![st[2]] = <<"Float", FloatConsts[st[3]]>>])
               [] st[1] = "copy" ->
                    EvalStatements(Tail(stmts), [ctx EXCEPT ![st[2]] = ctx[st[3]]])
               [] st[1] = "setint" ->
                    EvalStatements(Tail(stmts), [ctx EXCEPT ![st[2]] = <<"Int", st[3]>>])
               [] OTHER -> [ok |-> FALSE, ctx |-> ctx]

\* eval_empty_with_context_mut: parse, then evaluate statement by statement.
eval_empty_with_context_mut(stmts, ctx) ==
    IF \E i \in 1..Len(stmts) : stmts[i][1] = "syntax"
    THEN [ok |-> FALSE, ctx |-> ctx]
    ELSE EvalStatements(stmts, ctx)

\* if let Some(v) = context.get_value(..) { if let Ok(v) = v.as_float() { p[c] = v as f32 } }
WriteBack(old, v) == IF v[1] = "Float" THEN v[2] ELSE old

\* The Expression arm as it would be without the is_ok() test.
ProcessExpression_unchecked(stmts, p) ==
    LET r == eval_empty_with_context_mut(stmts, [c \in 1..4 |-> <<"Float", p[c]>>])
    IN  [p |-> <<WriteBack(p[1], r.ctx[1]), WriteBack(p[2], r.ctx[2]),
                 WriteBack(p[3], r.ctx[3]), WriteBack(p[4], r.ctx[4])>>,
         res |-> "Ok"]

\* The Expression arm.  context_map! cannot fail for four float entries, so
\* the `?` never returns; a failed evaluation skips the write-back and the
\* arm falls through to Ok(()).
ProcessExpression(stmts, p) ==
    LET r == eval_empty_with_context_mut(stmts, [c \in 1..4 |-> <<"Float", p[c]>>])
    IN  IF r.ok
        THEN [p |-> <<WriteBack(p[1], r.ctx[1]), WriteBack(p[2], r.ctx[2]),
                      WriteBack(p[3], r.ctx[3]), WriteBack(p[4], r.ctx[4])>>,
              res |-> "Ok"]
        ELSE [p |-> p, res |-> "Ok"]

\* desaturate as it would be if it left the pixel alone.
desaturate_none(p, factor) == p

desaturate(p, factor) ==
    LET val == Add32(Add32(Mul32(p[1], Lit32(59, 100)), Mul32(p[2], Lit32(3, 10))),
                     Mul32(p[3], Lit32(11, 100)))
    IN  [c \in 1..4 |-> IF c = 4 THEN p[4] ELSE Lerp32(p[c], val, factor)]

ContrastFactor(val) ==
    LET k == Lit32(10156863, 10000000)
        v == Div32(FromInt(val), F255)
    IN  Div32(Mul32(k, Add32(v, One32)), Mul32(One32, Sub32(k, v)))

\* The Invert arm as it would be if it inverted alpha as well.
InvertArm_alpha(p) == [c \in 1..4 |-> Sub32(One32, p[c])]

\* p[0] = 1. - p[0]; p[1] = 1. - p[1]; p[2] = 1. - p[2]
InvertArm(p) == [c \in 1..4 |-> IF c = 4 THEN p[4] ELSE Sub32(One32, p[c])]

\* The ChannelSwap arm as it would be if the first channel were the source
\* and the second the destination.
ChannelSwapArm_first_is_source(channels, p) ==
    [p EXCEPT ![channels[2] + 1] = p[channels[1] + 1]]

\* p[channels.0 as usize] = p[channels.1 as usize]
ChannelSwapArm(channels, p) ==
    [p EXCEPT ![channels[1] + 1] = p[channels[2] + 1]]

\* The arms of process_pixel that cannot fail; rnd are the three draws of the
\* thread's generator a Noise arm makes.  HSV (the palette crate's colour
\* conversion) and Exposure by a non-integral power are not modelled: no
\* operation of the model's inputs has them.
PixelArm(op, p, rnd) ==
    LET a == Args(op)
    IN  CASE Kind(op) = "Brightness" ->
               \* *p += Vector4::new(amt, amt, amt, 0.0)
               [c \in 1..4 |->
                   Add32(p[c], IF c = 4 THEN Zero32(0) ELSE Div32(FromInt(a[1]), F255))]
          [] Kind(op) = "Exposure" ->
               [c \in 1..4 |->
                   IF c = 4 THEN p[4]
                   ELSE Mul32(p[c], Exp2Int(Mul32(Div32(FromInt(a[1]), FromInt(100)),
                                                  FromInt(4))))]
          [] Kind(op) = "Equalize" ->
               [c \in 1..4 |->
                   IF c = 4 THEN p[4]
                   ELSE Lerp32(Div32(FromInt(a[1]), F255), Div32(FromInt(a[2]), F255), p[c])]
          [] Kind(op) = "Posterize" ->
               [c \in 1..4 |->
                   IF c = 4 THEN p[4]
                   ELSE Div32(Round32(Mul32(p[c], FromInt(a[1]))), FromInt(a[1]))]
          [] Kind(op) = "Noise" ->
               \* n_g and n_b are n_r when mono
               [c \in 1..4 |->
                   IF c = 4 THEN p[4]
                   ELSE Lerp32(p[c], IF a[2] = 1 THEN rnd[1] ELSE rnd[c],
                               Div32(FromInt(a[1]), FromInt(100)))]
          [] Kind(op) = "Fill" ->
               LET target == [c \in 1..4 |-> Div32(FromInt(a[c]), F255)]
               IN  [c \in 1..4 |-> VecLerp32(p[c], target[c], target[4])]
          [] Kind(op) = "Desaturate" ->
               desaturate(p, Div32(FromInt(a[1]), FromInt(100)))
          [] Kind(op) = "ChannelSwap" ->
               ChannelSwapArm(a, p)
          [] Kind(op) = "Mult" ->
               \* p.component_mul(Vector4::new(amt[0], amt[1], amt[2], 255) / 255.)
               [c \in 1..4 |->
                   Mul32(p[c], Div32(IF c = 4 THEN F255 ELSE FromInt(a[c]), F255))]
          [] Kind(op) = "Add" ->
               \* *p += Vector4::new(amt[0], amt[1], amt[2], 0.0) / 255.
               [c \in 1..4 |->
                   Add32(p[c], Div32(IF c = 4 THEN Zero32(0) ELSE FromInt(a[c]), F255))]
          [] Kind(op) = "Invert" ->
               InvertArm(p)
          [] Kind(op) = "MMult" ->
               [c \in 1..4 |-> IF c = 4 THEN p[4] ELSE Mul32(p[c], p[4])]
          [] Kind(op) = "MDiv" ->
               [c \in 1..4 |-> IF c = 4 THEN p[4] ELSE Div32(p[c], p[4])]
          [] Kind(op) = "Contrast" ->
               [c \in 1..4 |->
                   IF c = 4 THEN p[4]
                   ELSE Add32(Sub32(Mul32(ContrastFactor(a[1]), p[c]), Lit32(1, 2)),
                              Lit32(1, 2))]
          [] Kind(op) \in {"Blur", "Resize", "Crop", "Rotate", "Flip",
                           "ChromaticAberration", "PixelShader"} -> p

\* process_pixel(&self, p): the pixel afterwards and the Result returned.
process_pixel(op, p, rnd) ==
    IF Kind(op) = "Expression" THEN ProcessExpression(Args(op), p)
    ELSE [p |-> PixelArm(op, p, rnd), res |-> "Ok"]

(***************************************************************************)
(* cropped_range(crop, img_dim): the crop rectangle in pixels.             *)
(***************************************************************************)
cropped_range(c, dim) ==
    LET f    == [i \in 1..4 |-> Div32(FromInt(c[i]), FromInt(CropUnit))]
        zero == Zero32(0)
        rel  == <<Max32(f[1], zero),
                  Max32(f[2], zero),
                  Max32(Sub32(Sub32(One32, f[3]), f[1]), zero),
                  Max32(Sub32(Sub32(One32, f[4]), f[2]), zero)>>
    IN  <<AsU32(Mul32(rel[1], FromInt(dim[1]))),
          AsU32(Mul32(rel[2], FromInt(dim[2]))),
          AsU32(Mul32(rel[3], FromInt(dim[1]))),
          AsU32(Mul32(rel[4], FromInt(dim[2])))>>

(***************************************************************************)
(* process_pixels: the closure run on one chunk of four bytes.             *)
(***************************************************************************)
\* for operation in operators { if let Err(e) = operation.process_pixel(..) { error!(..) } }
\* from the operation at index i on: the pixel afterwards and the number of
\* errors logged.
RECURSIVE RunStackFrom(_, _, _, _, _)
RunStackFrom(ops, i, p, rnd, errors) ==
    IF i > Len(ops) THEN [p |-> p, errors |-> errors]
    ELSE LET r == process_pixel(ops[i], p, rnd)
         IN  RunStackFrom(ops, i + 1, r.p, rnd,
                          IF r.res = "Err" THEN errors + 1 ELSE errors)

\* The operator loop as it would be if it ran from the last operation to the
\* first.
RECURSIVE RunStackBackFrom(_, _, _, _, _)
RunStackBackFrom(ops, i, p, rnd, errors) ==
    IF i < 1 THEN [p |-> p, errors |-> errors]
    ELSE LET r == process_pixel(ops[i], p, rnd)
         IN  RunStackBackFrom(ops, i - 1, r.p, rnd,
                              IF r.res = "Err" THEN errors + 1 ELSE errors)

RunStack_reversed(ops, p, rnd) == RunStackBackFrom(ops, Len(ops), p, rnd, 0)

RunStack(ops, p, rnd) == RunStackFrom(ops, 1, p, rnd, 0)

\* Vector4::new(px[0] as f32, ..) / 255.
ToFloatPixel(px) == [c \in 1..4 |-> Div32(FromInt(px[c]), F255)]

\* The conversion as it would be if it rounded to the nearest byte.
ToBytes_round(p) == [c \in 1..4 |-> AsU8(Round32(Mul32(p[c], F255)))]

\* float_pixel *= 255.; px[c] = float_pixel[c] as u8
ToBytes(p) == [c \in 1..4 |-> AsU8(Mul32(p[c], F255))]

\* The closure of for_each: the chunk's bytes afterwards and the errors logged.
ChunkClosure(px, ops, rnd) ==
    LET r == RunStack(ops, ToFloatPixel(px), rnd)
    IN  [px |-> ToBytes(r.p), errors |-> r.errors]

(***************************************************************************)
(* The image evaluator.  A raster (RgbaImage) is [w, h, raw]: its width,   *)
(* its height and its container, one <<r, g, b, a>> per pixel, row-major.  *)
(* The container may be longer than w * h: ImageBuffer::from_raw accepts   *)
(* any container that is long enough.                                      *)
(***************************************************************************)
Min(a, b) == IF a < b THEN a ELSE b

Max(a, b) == IF a > b THEN a ELSE b

\* img.get_pixel(x, y)
GetPixel(img, x, y) == img.raw[y * img.w + x + 1]

\* The coordinates of the pixels of a w by h raster.
Coords(w, h) == (0..(w - 1)) \X (0..(h - 1))

\* ImageBuffer::new(w, h) filled by put_pixel(x, y, src[<<x, y>>]).
NewImage(w, h, src) ==
    [w |-> w, h |-> h,
     raw |-> [i \in 1..(w * h) |-> src[<<(i - 1) % w, (i - 1) \div w>>]]]

\* image::imageops, as the image crate defines them.
flip_horizontal(img) ==
    NewImage(img.w, img.h,
             [c \in Coords(img.w, img.h) |-> GetPixel(img, img.w - 1 - c[1], c[2])])

flip_vertical(img) ==
    NewImage(img.w, img.h,
             [c \in Coords(img.w, img.h) |-> GetPixel(img, c[1], img.h - 1 - c[2])])

rotate90(img) ==
    NewImage(img.h, img.w,
             [c \in Coords(img.h, img.w) |-> GetPixel(img, c[2], img.h - 1 - c[1])])

rotate180(img) ==
    NewImage(img.w, img.h,
             [c \in Coords(img.w, img.h) |->
                 GetPixel(img, img.w - 1 - c[1], img.h - 1 - c[2])])

rotate270(img) ==
    NewImage(img.h, img.w,
             [c \in Coords(img.h, img.w) |-> GetPixel(img, img.w - 1 - c[2], c[1])])

\* crop_imm(img, x, y, width, height).to_image(): crop_imm clamps the window
\* to the image.
crop_imm(img, win) ==
    LET x  == Min(win[1], img.w)
        y  == Min(win[2], img.h)
        ch == Min(win[4], img.h - y)
        cw == Min(win[3], img.w - x)
    IN  NewImage(cw, ch, [c \in Coords(cw, ch) |-> GetPixel(img, x + c[1], y + c[2])])

\* The pixels a convolution of the libraries writes (imageops::blur, the
\* resizer with its gamma mapper) are not computed: the model lets the
\* output be any of these rasters of the output's size.
RasterPixels == {<<10, 20, 30, 255>>, <<200, 100, 50, 128>>}

Filtered(n) == {[i \in 1..n |-> q] : q \in RasterPixels}

Done(img, res) == [img |-> img, res |-> res]

\* Blur(amt)
ProcessBlur(amt, img) ==
    IF amt # 0
    THEN {Done([w |-> img.w, h |-> img.h, raw |-> raw], "Ok") :
             raw \in Filtered(img.w * img.h)}
    ELSE {Done(img, "Ok")}

\* Crop(dim)
ProcessCrop(dim, img) ==
    IF dim # <<0, 0, 0, 0>>
    THEN {Done(crop_imm(img, cropped_range(dim, <<img.w, img.h>>)), "Ok")}
    ELSE {Done(img, "Ok")}

\* The Resize arm as it would be if it replaced the raster by an empty one of
\* the target size before the fallible calls.
ProcessResize_clobber(dimensions, img) ==
    IF dimensions # <<0, 0>>
    THEN LET dst_width  == Max(dimensions[1], 1)
             dst_height == Max(dimensions[2], 1)
         IN  IF Len(img.raw) < Max(img.w, 1) * Max(img.h, 1)
             THEN {Done([w |-> dimensions[1], h |-> dimensions[2], raw |-> <<>>], "Err")}
             ELSE {Done([w |-> dimensions[1], h |-> dimensions[2], raw |-> raw], "Ok") :
                      raw \in Filtered(dst_width * dst_height)}
    ELSE {Done(img, "Ok")}

\* Resize { dimensions, filter, .. }.  NonZeroU32::new(n).unwrap_or(1) makes
\* a zero size 1.  fr::Image::from_vec_u8 fails when the container is shorter
\* than width * height pixels and `?` returns the error before img is
\* assigned; the mapper and the resizer accept every U8x4 image, and
\* from_raw every container of at least dimensions.0 * dimensions.1 pixels,
\* which dst_width * dst_height always is.
ProcessResize(dimensions, img) ==
    IF dimensions # <<0, 0>>
    THEN LET width      == Max(img.w, 1)
             height     == Max(img.h, 1)
             dst_width  == Max(dimensions[1], 1)
             dst_height == Max(dimensions[2], 1)
         IN  IF Len(img.raw) < width * height
             THEN {Done(img, "Err")}
             ELSE {Done([w |-> dimensions[1], h |-> dimensions[2], raw |-> raw], "Ok") :
                      raw \in Filtered(dst_width * dst_height)}
    ELSE {Done(img, "Ok")}

\* The Rotate arm as it would be with the 270 arm commented out.
ProcessRotate_no_270(angle, img) ==
    CASE angle = 90 -> {Done(rotate90(img), "Ok")}
      [] angle = 0 - 90 -> {Done(rotate270(img), "Ok")}
      [] angle = 180 -> {Done(rotate180(img), "Ok")}
      [] OTHER -> {Done(img, "Ok")}

\* Rotate(angle)
ProcessRotate(angle, img) ==
    CASE angle = 90 -> {Done(rotate90(img), "Ok")}
      [] angle = 0 - 90 -> {Done(rotate270(img), "Ok")}
      [] angle = 270 -> {Done(rotate270(img), "Ok")}
      [] angle = 180 -> {Done(rotate180(img), "Ok")}
      [] OTHER -> {Done(img, "Ok")}

\* The Flip arm as it would be if it flipped vertically or horizontally, not
\* both.
ProcessFlip_either(vert, img) ==
    IF vert = 1 THEN {Done(flip_vertical(img), "Ok")}
    ELSE {Done(flip_horizontal(img), "Ok")}

\* Flip(vert)
ProcessFlip(vert, img) ==
    LET v == IF vert = 1 THEN flip_vertical(img) ELSE img
    IN  {Done(flip_horizontal(v), "Ok")}

\* (dist as f32 / center as f32) * amt as f32 / 10., then `as i32`
FringeOffset(dist, center, amt) ==
    AsI32(Div32(Mul32(Div32(FromInt(dist), FromInt(center)), FromInt(amt)), FromInt(10)))

\* ChromaticAberration(amt): the red of every pixel of the image from the
\* clone img_c, where get_pixel_checked finds the position inside it.
ProcessFringe(amt, img) ==
    LET cx   == img.w \div 2
        cy   == img.h \div 2
        n    == img.w * img.h
        Red(i) ==
            LET x  == (i - 1) % img.w
                y  == (i - 1) \div img.w
                sx == Max(x + FringeOffset(x - cx, cx, amt), 0)
                sy == Max(y + FringeOffset(y - cy, cy, amt), 0)
            IN  IF sx < img.w /\ sy < img.h
                THEN [img.raw[i] EXCEPT ![1] = GetPixel(img, sx, sy)[1]]
                ELSE img.raw[i]
    IN  {Done([img EXCEPT !.raw = [i \in 1..Len(img.raw) |->
                                      IF i <= n THEN Red(i) ELSE img.raw[i]]], "Ok")}

\* process_image(&self, img): the outcomes, each the raster afterwards and
\* the Result returned.
process_image(op, img) ==
    CASE Kind(op) = "Blur" -> ProcessBlur(Args(op)[1], img)
      [] Kind(op) = "Crop" -> ProcessCrop(Args(op), img)
      [] Kind(op) = "Resize" -> ProcessResize(Args(op), img)
      [] Kind(op) = "Rotate" -> ProcessRotate(Args(op)[1], img)
      [] Kind(op) = "Flip" -> ProcessFlip(Args(op)[1], img)
      [] Kind(op) = "ChromaticAberration" -> ProcessFringe(Args(op)[1], img)
      [] OTHER -> {Done(img, "Ok")}

(***************************************************************************)
(* State.                                                                  *)
(***************************************************************************)
VARIABLES
    \* a call of cropped_range
    crop,          \* the crop rectangle passed in
    img_dim,       \* the image size passed in
    window,        \* the array returned, <<>> before the call returns
    \* a call of is_per_pixel
    cl_op,         \* the operation asked about
    cl_result,     \* <<>> before the call returns, then <<the boolean>>
    \* a call of process_pixel
    px_op,         \* the operation
    px_in,         \* the pixel passed in
    px_out,        \* the pixel afterwards, <<>> before the call returns
    px_res,        \* "none" before the call returns, then "Ok" or "Err"
    \* a call of process_pixels
    operators,     \* the stack passed in
    buffer,        \* the raster's bytes, one <<r, g, b, a>> per chunk of four
    orig,          \* the buffer as it was passed in
    tasks,         \* the ranges <<first, last>> of chunks not yet processed,
                   \* one per piece the thread pool has split the slice into
    trace,         \* the chunks in the order they were processed
    logged,        \* the number of error! lines written
    \* calls of process_image, each on the raster the one before left
    img,           \* the raster
    prev_img,      \* the raster as the last call received it
    last_op,       \* the operation of the last call, <<>> before the first
    last_res,      \* what the last call returned: "Ok" or "Err"
    steps          \* the number of calls made

cropVars == <<crop, img_dim, window>>

classVars == <<cl_op, cl_result>>

pixelVars == <<px_op, px_in, px_out, px_res>>

sweepVars == <<operators, buffer, orig, tasks, trace, logged>>

imageVars == <<img, prev_img, last_op, last_res, steps>>

vars == <<crop, img_dim, window, cl_op, cl_result, px_op, px_in, px_out, px_res,
          operators, buffer, orig, tasks, trace, logged,
          img, prev_img, last_op, last_res, steps>>

(***************************************************************************)
(* Inputs.                                                                 *)
(***************************************************************************)
\* Largest width and height of the small images cropped_range is tried on.
MaxDim == 5

CropValues == {0, 1, 5000, 6000, 10000, 20000}

CropRects == {<<l, t, r, b>> : l \in CropValues, t \in CropValues,
                               r \in CropValues, b \in CropValues}

ImgDims == (0..MaxDim \cup {100}) \X (0..MaxDim \cup {200})

\* Expression texts, as their statements.
ExprOk == {<<>>,
           <<<<"set", 1, 2>>>>,
           <<<<"copy", 1, 3>>, <<"set", 4, 3>>>>,
           <<<<"setint", 2, 1>>, <<"set", 3, 4>>>>}

ExprFailing == {<<<<"undef", 0, 0>>>>,
                <<<<"set", 1, 4>>, <<"undef", 0, 0>>>>,
                <<<<"set", 1, 2>>, <<"copy", 2, 1>>, <<"syntax", 0, 0>>>>}

Op(kind, args) == <<kind, args>>

Invert == Op("Invert", <<>>)

PerPixelOps ==
    {Op("Brightness", <<a>>) : a \in {0 - 255, 0, 40, 255}}
    \cup {Op("Exposure", <<a>>) : a \in {0 - 25, 0, 100}}
    \cup {Op("Equalize", b) : b \in {<<0, 255>>, <<64, 128>>, <<0 - 128, 2000>>}}
    \cup {Op("Posterize", <<l>>) : l \in {1, 4, 255}}
    \cup {Op("Noise", n) : n \in {<<0, 0>>, <<50, 1>>, <<100, 0>>}}
    \cup {Op("Fill", c) : c \in {<<255, 0, 0, 255>>, <<0, 128, 255, 128>>, <<9, 9, 9, 0>>}}
    \cup {Op("Desaturate", <<a>>) : a \in {0, 50, 100}}
    \cup {Op("ChannelSwap", c) : c \in {<<0, 1>>, <<1, 0>>, <<3, 0>>, <<2, 2>>}}
    \cup {Op("Mult", c) : c \in {<<255, 255, 255>>, <<128, 0, 255>>}}
    \cup {Op("Add", c) : c \in {<<0, 0, 0>>, <<10, 20, 255>>}}
    \cup {Op("Contrast", <<a>>) : a \in {0 - 128, 0, 64, 128}}
    \cup {Op("Expression", e) : e \in ExprOk \cup ExprFailing}
    \cup {Invert, Op("MMult", <<>>), Op("MDiv", <<>>)}

WholeImageOps ==
    {Op("Blur", <<a>>) : a \in {0, 3}}
    \cup {Op("Resize", d) : d \in {<<0, 0>>, <<0, 2>>, <<2, 0>>, <<1, 1>>, <<2, 1>>, <<3, 2>>}}
    \cup {Op("Crop", c) : c \in {<<0, 0, 0, 0>>, <<5000, 0, 0, 0>>, <<0, 5000, 5000, 0>>,
                                 <<10000, 0, 0, 0>>, <<0, 0, 20000, 0>>}}
    \cup {Op("Rotate", <<a>>) : a \in {0 - 270, 0 - 90, 0, 45, 90, 180, 270, 360}}
    \cup {Op("Flip", <<v>>) : v \in {0, 1}}
    \cup {Op("ChromaticAberration", <<a>>) : a \in {0, 10, 255}}

AllOps ==
    PerPixelOps \cup WholeImageOps
    \cup {Op("HSV", <<0, 100, 100>>), Op("HSV", <<180, 50, 200>>),
          Op("PixelShader", <<0>>), Op("PixelShader", <<255>>)}

\* Raster bytes, one pixel each.
PixelBytes ==
    {<<10, 20, 30, 255>>, <<200, 100, 50, 128>>, <<255, 0, 77, 0>>, <<64, 128, 0, 255>>}

\* The pixels process_pixel is called on: the bytes of a raster divided by
\* 255, and the mid grey an earlier operation of a stack leaves (Posterize(2)
\* on a channel between 0.25 and 0.75).
FloatPixels ==
    {ToFloatPixel(b) : b \in PixelBytes}
    \cup {<<Lit32(1, 2), Lit32(1, 2), Lit32(1, 2), One32>>}

\* The draws of thread_rng().gen::<f32>(), which lie in [0, 1): the least
\* and the greatest.
NoiseDraws == {Zero32(0), Fin32(0, Pow2(24) - 1, 0 - 24)}

NoDraws == <<Zero32(0), Zero32(0), Zero32(0)>>

\* The draws the operations of ops make: a Noise makes one when mono and
\* three otherwise, the other operations none.  (The stacks of the model hold
\* at most one Noise.)
DrawsFor(ops) ==
    IF \E i \in 1..Len(ops) : Kind(ops[i]) = "Noise" /\ Args(ops[i])[2] = 0
    THEN NoiseDraws \X NoiseDraws \X NoiseDraws
    ELSE IF \E i \in 1..Len(ops) : Kind(ops[i]) = "Noise"
    THEN NoiseDraws \X {Zero32(0)} \X {Zero32(0)}
    ELSE {NoDraws}

\* Longest raster of a sweep, in pixels.
MaxPixels == 3

\* The pixels of PixelBytes in a fixed order, and the rasters of a sweep: every
\* length up to MaxPixels, filled with the three pixels in turn from each
\* starting point, so that neighbouring pixels differ.
PixelList == <<<<10, 20, 30, 255>>, <<200, 100, 50, 128>>, <<255, 0, 77, 0>>>>

Buffers ==
    {[i \in 1..n |-> PixelList[((i + k) % Len(PixelList)) + 1]] :
        <<n, k>> \in (0..MaxPixels) \X (0..(Len(PixelList) - 1))}

Stacks ==
    {<<>>,
     <<Invert>>,
     <<Invert, Invert>>,
     <<Op("Brightness", <<40>>), Invert>>,
     <<Invert, Op("Brightness", <<40>>)>>,
     <<Op("Desaturate", <<50>>), Invert>>,
     <<Invert, Op("Desaturate", <<50>>)>>,
     <<Op("Expression", <<<<"set", 1, 4>>, <<"undef", 0, 0>>>>), Invert>>,
     <<Invert, Op("Expression", <<<<"set", 1, 2>>, <<"copy", 2, 1>>, <<"syntax", 0, 0>>>>),
       Op("Add", <<10, 20, 255>>)>>,
     <<Op("Expression", <<<<"copy", 1, 3>>, <<"set", 4, 3>>>>), Op("MMult", <<>>)>>,
     <<Op("MDiv", <<>>), Op("Mult", <<128, 0, 255>>)>>,
     <<Op("ChannelSwap", <<0, 1>>), Op("Contrast", <<64>>)>>,
     <<Op("Noise", <<50, 1>>), Invert>>}

\* The buffers of the byte sweep: a first pixel whose channels run through
\* every value a u8 holds, and a second one the threads can split off.
BytePixel(n) == <<n, ChannelMax - n, (n + 77) % (ChannelMax + 1), n>>

ByteBuffers == {<<BytePixel(n), <<174, 215, 244, 255>>>> : n \in 0..ChannelMax}

\* The stacks of the byte sweep: none of them fails, draws or divides.
ByteStacks ==
    {<<>>,
     <<Invert, Invert>>,
     <<Op("Desaturate", <<60>>), Invert>>,
     <<Invert, Op("Desaturate", <<60>>)>>,
     <<Op("Brightness", <<255>>)>>,
     <<Op("Brightness", <<0 - 255>>)>>,
     <<Op("Exposure", <<100>>), Op("Brightness", <<0 - 255>>),
       Op("Mult", <<128, 3, 255>>)>>}

\* Largest width and height of the rasters process_image starts from, and
\* the number of calls made in a row.
MaxW == 3

MaxH == 2

MaxSteps == 2

\* Largest number of pixels of the rasters process_image starts from.
MaxCells == 6

\* RgbaImage::default() is the empty raster; the others have a container of
\* exactly w * h pixels.
Rasters ==
    UNION {{[w |-> w, h |-> h, raw |-> raw] : raw \in [1..(w * h) -> RasterPixels]} :
              <<w, h>> \in {d \in (0..MaxW) \X (0..MaxH) : d[1] * d[2] <= MaxCells}}

\* Width of the one-row rasters, wide enough for a pixel to lie strictly
\* between the centre and the far edge.
StripLen == 5

Strips == {[w |-> StripLen, h |-> 1, raw |-> raw] : raw \in [1..StripLen -> RasterPixels]}

ImageOps == WholeImageOps \cup {Invert}

(***************************************************************************)
(* Initial states: one call of one function, the others idle.              *)
(***************************************************************************)
CropIdle == crop = <<0, 0, 0, 0>> /\ img_dim = <<0, 0>> /\ window = <<>>

ClassIdle == cl_op = Invert /\ cl_result = <<>>

PixelIdle == px_op = Invert /\ px_in = <<>> /\ px_out = <<>> /\ px_res = "none"

SweepIdle ==
    /\ operators = <<>> /\ buffer = <<>> /\ orig = <<>>
    /\ tasks = {} /\ trace = <<>> /\ logged = 0

EmptyImage == [w |-> 0, h |-> 0, raw |-> <<>>]

ImageIdle ==
    /\ img = EmptyImage /\ prev_img = EmptyImage
    /\ last_op = <<>> /\ last_res = "Ok" /\ steps = 0

CropInit == crop \in CropRects /\ img_dim \in ImgDims /\ window = <<>>

ClassInit == cl_op \in AllOps /\ cl_result = <<>>

PixelInit ==
    /\ px_op \in PerPixelOps \cup WholeImageOps
    /\ px_in \in FloatPixels
    /\ px_out = <<>>
    /\ px_res = "none"

SweepInit ==
    /\ operators \in Stacks
    /\ buffer \in Buffers
    /\ orig = buffer
    /\ tasks = IF Len(buffer) = 0 THEN {} ELSE {<<1, Len(buffer)>>}
    /\ trace = <<>>
    /\ logged = 0

BytesInit ==
    /\ operators \in ByteStacks
    /\ buffer \in ByteBuffers
    /\ orig = buffer
    /\ tasks = {<<1, Len(buffer)>>}
    /\ trace = <<>>
    /\ logged = 0

ImageInit ==
    /\ img \in Rasters \cup Strips
    /\ prev_img = img
    /\ last_op = <<>>
    /\ last_res = "Ok"
    /\ steps = 0

(***************************************************************************)
(* Actions.                                                                *)
(***************************************************************************)
CroppedRangeCall ==
    /\ window = <<>>
    /\ window' = cropped_range(crop, img_dim)
    /\ UNCHANGED <<crop, img_dim>>
    /\ UNCHANGED <<classVars, pixelVars, sweepVars, imageVars>>

IsPerPixelCall ==
    /\ cl_result = <<>>
    /\ cl_result' = <<is_per_pixel(cl_op)>>
    /\ UNCHANGED cl_op
    /\ UNCHANGED <<cropVars, pixelVars, sweepVars, imageVars>>

ProcessPixelCall ==
    /\ px_res = "none"
    /\ \E rnd \in DrawsFor(<<px_op>>) : \E r \in {process_pixel(px_op, px_in, rnd)} :
          px_out' = r.p /\ px_res' = r.res
    /\ UNCHANGED <<px_op, px_in>>
    /\ UNCHANGED <<cropVars, classVars, sweepVars, imageVars>>

\* The thread pool splits a piece of the slice in two.
SplitTask ==
    /\ \E t \in tasks : \E k \in t[1]..(t[2] - 1) :
          tasks' = (tasks \ {t}) \cup {<<t[1], k>>, <<k + 1, t[2]>>}
    /\ UNCHANGED <<operators, buffer, orig, trace, logged>>
    /\ UNCHANGED <<cropVars, classVars, pixelVars, imageVars>>

\* A thread runs the closure on the next chunk of one of the pieces.
ProcessChunk ==
    /\ \E t \in tasks : \E rnd \in DrawsFor(operators) :
          \E r \in {ChunkClosure(buffer[t[1]], operators, rnd)} :
          LET i == t[1]
          IN  /\ buffer' = [buffer EXCEPT ![i] = r.px]
              /\ logged' = logged + r.errors
              /\ trace' = Append(trace, i)
              /\ tasks' = (tasks \ {t}) \cup
                          (IF t[1] = t[2] THEN {} ELSE {<<t[1] + 1, t[2]>>})
    /\ UNCHANGED <<operators, orig>>
    /\ UNCHANGED <<cropVars, classVars, pixelVars, imageVars>>

\* One call of process_image on the raster the last call left.
ProcessImageCall ==
    /\ steps < MaxSteps
    /\ \E op \in ImageOps : \E out \in process_image(op, img) :
          /\ img' = out.img
          /\ last_res' = out.res
          /\ last_op' = op
    /\ prev_img' = img
    /\ steps' = steps + 1
    /\ UNCHANGED <<cropVars, classVars, pixelVars, sweepVars>>

(***************************************************************************)
(* Specifications, one per function.                                       *)
(***************************************************************************)
CropNext == CroppedRangeCall

InitCrop == CropInit /\ ClassIdle /\ PixelIdle /\ SweepIdle /\ ImageIdle

SpecCrop == InitCrop /\ [][CropNext]_vars

ClassNext == IsPerPixelCall

InitClassify == CropIdle /\ ClassInit /\ PixelIdle /\ SweepIdle /\ ImageIdle

SpecClassify == InitClassify /\ [][ClassNext]_vars

PixelNext == ProcessPixelCall

InitPixel == CropIdle /\ ClassIdle /\ PixelInit /\ SweepIdle /\ ImageIdle

SpecPixel == InitPixel /\ [][PixelNext]_vars

SweepNext == SplitTask \/ ProcessChunk

InitSweep == CropIdle /\ ClassIdle /\ PixelIdle /\ SweepInit /\ ImageIdle

SpecSweep == InitSweep /\ [][SweepNext]_vars

InitBytes == CropIdle /\ ClassIdle /\ PixelIdle /\ BytesInit /\ ImageIdle

SpecBytes == InitBytes /\ [][SweepNext]_vars

ImageNext == ProcessImageCall

InitImage == CropIdle /\ ClassIdle /\ PixelIdle /\ SweepIdle /\ ImageInit

SpecImage == InitImage /\ [][ImageNext]_vars

(***************************************************************************)
(* C1: the window cropped_range returns never extends outside the image:   *)
(* x + width <= img_w and y + height <= img_h, for every crop rectangle,   *)
(* values above 10000 included.                                            *)
(***************************************************************************)
C1_WindowInsideImage ==
    window # <<>> =>
        /\ window[1] + window[3] <= img_dim[1]
        /\ window[2] + window[4] <= img_dim[2]

(***************************************************************************)
(* C2: cropped_range returns the truncations of l*w, t*h,                  *)
(* max(0, 1 - r - l)*w and max(0, 1 - b - t)*h, the four inputs read as    *)
(* left, top, right margin and bottom margin in units of 1/10000; the two  *)
(* examples of the specification are instances.                            *)
(***************************************************************************)
NonNeg(n) == IF n < 0 THEN 0 ELSE n

ExactWindow(c, dim) ==
    <<(c[1] * dim[1]) \div CropUnit,
      (c[2] * dim[2]) \div CropUnit,
      (NonNeg(CropUnit - c[3] - c[1]) * dim[1]) \div CropUnit,
      (NonNeg(CropUnit - c[4] - c[2]) * dim[2]) \div CropUnit>>

C2_ExactTruncation == window # <<>> => window = ExactWindow(crop, img_dim)

\* The two examples of the specification, which the code does return.
C2_Examples ==
    /\ cropped_range(<<0, 0, 0, 0>>, <<100, 200>>) = <<0, 0, 100, 200>>
    /\ cropped_range(<<5000, 0, 0, 0>>, <<100, 200>>) = <<50, 0, 50, 200>>

\* The values differ from the exact ones by binary32 rounding only: never
\* above, and at most one below.
C2_WithinOne ==
    window # <<>> =>
        \A i \in 1..4 : LET x == ExactWindow(crop, img_dim)[i]
                        IN  window[i] \in {x, x - 1}

(***************************************************************************)
(* C3: process_pixels applies the operators to every pixel in stack order, *)
(* and for a stack without Noise every pixel is, under every partition of  *)
(* the buffer and every interleaving, what processing the pixels one by    *)
(* one gives: a chunk not yet processed holds its original bytes, a        *)
(* processed one the stack's result on its own original bytes.             *)
(***************************************************************************)
NoNoise(ops) == \A i \in 1..Len(ops) : Kind(ops[i]) # "Noise"

Pending(i) == \E t \in tasks : t[1] <= i /\ i <= t[2]

\* The first operation, then the rest of the stack.
RECURSIVE InStackOrder(_, _)
InStackOrder(ops, p) ==
    IF ops = <<>> THEN p
    ELSE InStackOrder(Tail(ops), process_pixel(Head(ops), p, NoDraws).p)

SequentialPixel(px, ops) == ToBytes(InStackOrder(ops, ToFloatPixel(px)))

C3_PartitionIndependent ==
    NoNoise(operators) =>
        /\ Len(buffer) = Len(orig)
        /\ \A i \in 1..Len(buffer) :
              buffer[i] = IF Pending(i) THEN orig[i]
                          ELSE SequentialPixel(orig[i], operators)

\* A sweep has finished that processed the last chunk first, with a stack
\* whose order matters.
C3_Witness ==
    /\ tasks = {}
    /\ Len(trace) >= 3
    /\ trace[1] = Len(buffer)
    /\ operators = <<Op("Brightness", <<40>>), Invert>>
    /\ buffer # orig
    /\ buffer[1] # buffer[2]
    /\ buffer[1] # SequentialPixel(orig[1], <<Invert, Op("Brightness", <<40>>)>>)

(***************************************************************************)
(* C4: process_pixel with an Expression that fails to parse or to evaluate *)
(* leaves the four channels unchanged and returns an error.                *)
(***************************************************************************)
ExprFails(op) ==
    /\ Kind(op) = "Expression"
    /\ \E i \in 1..Len(Args(op)) : Args(op)[i][1] \in {"undef", "syntax"}

C4_FailureReported ==
    (px_res # "none" /\ ExprFails(px_op)) => (px_out = px_in /\ px_res = "Err")

\* What the code does keep: the pixel is unchanged.
C4_FailureKeepsPixel ==
    (px_res # "none" /\ ExprFails(px_op)) => px_out = px_in

(***************************************************************************)
(* C5: an operator that fails on a pixel acts as the identity on it and    *)
(* the sweep goes on: every processed pixel is the result of the stack     *)
(* without its failing operators, applied in order, and every pixel is     *)
(* processed.                                                              *)
(***************************************************************************)
WithoutFailing(ops) == SelectSeq(ops, LAMBDA o : ~ExprFails(o))

C5_FailureIsIdentity ==
    NoNoise(operators) =>
        /\ \A i \in 1..Len(buffer) :
              ~Pending(i) => buffer[i] = SequentialPixel(orig[i], WithoutFailing(operators))
        /\ (tasks # {} \/ Len(trace) = Len(buffer))

\* A sweep has finished whose stack has a failing expression, with an
\* assignment before the failure, between two operators that change pixels.
C5_Witness ==
    /\ tasks = {}
    /\ Len(buffer) >= 2
    /\ Len(operators) = 3
    /\ ExprFails(operators[2])
    /\ Args(operators[2])[1][1] = "set"
    /\ \A i \in 1..Len(buffer) : buffer[i] # orig[i]

(***************************************************************************)
(* C6: when process_image returns an error the raster is as it was before  *)
(* the call.                                                               *)
(***************************************************************************)
C6_ErrorLeavesRaster == (steps > 0 /\ last_res = "Err") => img = prev_img

\* The second operation of a stack fails on the raster the first one left.
C6_Witness ==
    /\ steps = 2
    /\ last_res = "Err"
    /\ Kind(last_op) = "Resize"
    /\ img.h > 0

(***************************************************************************)
(* C7: Resize with exactly one target dimension 0, or on a raster of width *)
(* or height 0, returns no error and treats the zero dimension as 1: the   *)
(* result has that dimension 1 and a buffer of width * height pixels; for  *)
(* non-zero targets the result has the target dimensions.                  *)
(***************************************************************************)
C7_ZeroCoercedToOne ==
    (steps > 0 /\ Kind(last_op) = "Resize" /\ Args(last_op) # <<0, 0>>) =>
        LET d == Args(last_op)
        IN  /\ last_res = "Ok"
            /\ img.w = Max(d[1], 1)
            /\ img.h = Max(d[2], 1)
            /\ Len(img.raw) = img.w * img.h

(***************************************************************************)
(* C8: is_per_pixel is false exactly for Blur, Resize, Crop, Rotate, Flip  *)
(* and ChromaticAberration and true for the other 17 variants.             *)
(***************************************************************************)
WholeImageKinds == {"Blur", "Resize", "Crop", "Rotate", "Flip", "ChromaticAberration"}

C8_Classification ==
    /\ cl_result # <<>> => cl_result[1] = (Kind(cl_op) \notin WholeImageKinds)
    /\ Kind(cl_op) \in OpKinds
    /\ Cardinality(OpKinds \ WholeImageKinds) = 17
    /\ {Kind(o) : o \in AllOps} = OpKinds

C8_Witness == cl_result = <<FALSE>> /\ Kind(cl_op) = "Flip"

(***************************************************************************)
(* C9: Flip(v) always mirrors horizontally, and vertically too when v is   *)
(* true; the dimensions are unchanged.                                     *)
(***************************************************************************)
Flipped(v) ==
    /\ img.w = prev_img.w
    /\ img.h = prev_img.h
    /\ Len(img.raw) = img.w * img.h
    /\ \A x \in 0..(img.w - 1) : \A y \in 0..(img.h - 1) :
          GetPixel(img, x, y) =
              GetPixel(prev_img, img.w - 1 - x, IF v = 1 THEN img.h - 1 - y ELSE y)

\* Row y of the raster before the call.
RowHasTwoPixels(y) ==
    \E x1, x2 \in 0..(prev_img.w - 1) : GetPixel(prev_img, x1, y) # GetPixel(prev_img, x2, y)

RowIsMirrored(y) ==
    \A x \in 0..(prev_img.w - 1) :
        GetPixel(prev_img, x, y) = GetPixel(prev_img, prev_img.w - 1 - x, y)

\* As claimed: Flip(false) changes every raster that has two different
\* pixels in a row.
C9_FlipNeverNoOp ==
    (steps > 0 /\ Kind(last_op) = "Flip") =>
        /\ Flipped(Args(last_op)[1])
        /\ (Args(last_op)[1] = 0 /\ (\E y \in 0..(prev_img.h - 1) : RowHasTwoPixels(y)))
              => img # prev_img

\* As amended: Flip(false) changes every raster that has a row which is not
\* its own mirror image.
C9_FlipMirrors ==
    (steps > 0 /\ Kind(last_op) = "Flip") =>
        /\ Flipped(Args(last_op)[1])
        /\ (Args(last_op)[1] = 0 /\ (\E y \in 0..(prev_img.h - 1) : ~RowIsMirrored(y)))
              => img # prev_img

C9_Witness ==
    /\ steps > 0
    /\ last_op = Op("Flip", <<0>>)
    /\ prev_img.w = 3 /\ prev_img.h = 2
    /\ ~RowIsMirrored(0)
    /\ RowIsMirrored(1) /\ RowHasTwoPixels(1)
    /\ img # prev_img

(***************************************************************************)
(* C10: Rotate(a) permutes the pixels: a quarter turn for 90 (width and    *)
(* height swapped), a half turn for 180, the same three-quarter turn for   *)
(* 270 and -90, and no change for every other a.                           *)
(***************************************************************************)
QuarterTurns(n) ==
    LET w == prev_img.w
        h == prev_img.h
        Target(x, y) == CASE n = 1 -> <<h - 1 - y, x>>
                          [] n = 2 -> <<w - 1 - x, h - 1 - y>>
                          [] n = 3 -> <<y, w - 1 - x>>
    IN  /\ img.w = IF n = 2 THEN w ELSE h
        /\ img.h = IF n = 2 THEN h ELSE w
        /\ Len(img.raw) = w * h
        /\ \A x \in 0..(w - 1) : \A y \in 0..(h - 1) :
              GetPixel(img, Target(x, y)[1], Target(x, y)[2]) = GetPixel(prev_img, x, y)

C10_RotatePermutes ==
    (steps > 0 /\ Kind(last_op) = "Rotate") =>
        LET a == Args(last_op)[1]
        IN  CASE a = 90 -> QuarterTurns(1)
              [] a = 180 -> QuarterTurns(2)
              [] a \in {270, 0 - 90} ->
                    /\ QuarterTurns(3)
                    /\ process_image(Op("Rotate", <<270>>), prev_img)
                          = process_image(Op("Rotate", <<0 - 90>>), prev_img)
              [] OTHER -> img = prev_img

C10_Witness ==
    /\ steps > 0
    /\ last_op = Op("Rotate", <<270>>)
    /\ prev_img.w = 3 /\ prev_img.h = 2
    /\ img.w = 2 /\ img.h = 3
    /\ GetPixel(prev_img, 2, 0) # GetPixel(prev_img, 0, 0)
    /\ GetPixel(img, 0, 0) = GetPixel(prev_img, 2, 0)
    /\ img.raw # prev_img.raw

(***************************************************************************)
(* C11: process_pixels with the stack [Invert, Invert] returns every pixel *)
(* with R, G and B within one quantization step of the original bytes and  *)
(* with alpha exactly the original byte.                                   *)
(***************************************************************************)
Abs(n) == IF n < 0 THEN 0 - n ELSE n

C11_InvertTwice ==
    operators = <<Invert, Invert>> =>
        \A i \in 1..Len(buffer) :
            ~Pending(i) =>
                /\ buffer[i][4] = orig[i][4]
                /\ \A c \in 1..3 : Abs(buffer[i][c] - orig[i][c]) <= 1

\* A finished sweep that moved a colour channel by one step and kept an
\* alpha that is neither 0 nor 255.
C11_Witness ==
    /\ tasks = {}
    /\ operators = <<Invert, Invert>>
    /\ \E c \in 1..3 : Abs(buffer[1][c] - orig[1][c]) = 1
    /\ orig[1][4] \notin {0, ChannelMax}
    /\ buffer[1][4] = orig[1][4]

(***************************************************************************)
(* C12: the order of the stack matters: there is a pixel and a Desaturate  *)
(* amount for which [Desaturate, Invert] and [Invert, Desaturate] give     *)
(* different bytes.  Every finished sweep with one of the two stacks holds *)
(* a pixel the other order would have left with other bytes.               *)
(***************************************************************************)
DesaturateInvert ==
    {<<Op("Desaturate", <<60>>), Invert>>, <<Invert, Op("Desaturate", <<60>>)>>}

C12_OrderMatters ==
    (tasks = {} /\ operators \in DesaturateInvert) =>
        \E i \in 1..Len(buffer) :
            buffer[i] # SequentialPixel(orig[i], <<operators[2], operators[1]>>)

C12_Witness ==
    /\ tasks = {}
    /\ operators = <<Op("Desaturate", <<60>>), Invert>>
    /\ orig[2] = <<174, 215, 244, 255>>
    /\ buffer[2] = <<69, 52, 41, 255>>
    /\ SequentialPixel(orig[2], <<Invert, Op("Desaturate", <<60>>)>>) = <<68, 52, 40, 255>>

(***************************************************************************)
(* C13: ChromaticAberration(amt) keeps the dimensions, leaves green, blue  *)
(* and alpha of every pixel unchanged, and sets the red of every pixel     *)
(* (x, y) to the red of the raster before the call at the offset position  *)
(* clamped into [0, w-1] x [0, h-1], at the low and at the high edge.      *)
(***************************************************************************)
Clamp(n, lo, hi) == Max(lo, Min(n, hi))

C13_RedFromClampedOffset ==
    (steps > 0 /\ Kind(last_op) = "ChromaticAberration") =>
        LET w   == prev_img.w
            h   == prev_img.h
            amt == Args(last_op)[1]
        IN  /\ img.w = w
            /\ img.h = h
            /\ \A x \in 0..(w - 1) : \A y \in 0..(h - 1) :
                  LET sx == Clamp(x + FringeOffset(x - (w \div 2), w \div 2, amt), 0, w - 1)
                      sy == Clamp(y + FringeOffset(y - (h \div 2), h \div 2, amt), 0, h - 1)
                  IN  GetPixel(img, x, y) =
                          [GetPixel(prev_img, x, y) EXCEPT ![1] = GetPixel(prev_img, sx, sy)[1]]

(***************************************************************************)
(* C14: ChannelSwap((first, second)) copies one channel onto another and   *)
(* leaves the three other channels unchanged.  As claimed, the first       *)
(* channel is the source and the second the destination; as amended, the   *)
(* first is the destination and the second the source.                     *)
(***************************************************************************)
\* As claimed: pixel[second] is the old pixel[first].
C14_FirstIsSource ==
    (px_res # "none" /\ Kind(px_op) = "ChannelSwap") =>
        \A c \in 1..4 :
            px_out[c] = IF c = Args(px_op)[2] + 1 THEN px_in[Args(px_op)[1] + 1]
                        ELSE px_in[c]

\* As amended: pixel[first] is the old pixel[second].
C14_FirstIsDestination ==
    (px_res # "none" /\ Kind(px_op) = "ChannelSwap") =>
        /\ px_res = "Ok"
        /\ \A c \in 1..4 :
              px_out[c] = IF c = Args(px_op)[1] + 1 THEN px_in[Args(px_op)[2] + 1]
                          ELSE px_in[c]

\* ChannelSwap((Red, Green)) has put the old green into red.
C14_Witness ==
    /\ px_res = "Ok"
    /\ px_op = Op("ChannelSwap", <<0, 1>>)
    /\ px_in[1] # px_in[2]
    /\ px_out[1] = px_in[2]
    /\ px_out[2] = px_in[2]

(***************************************************************************)
(* C15: Contrast(amount) computes factor * (in - 0.5) + 0.5 for each of R, *)
(* G and B, so a channel of 0.5 stays 0.5 for every amount, and alpha is   *)
(* unchanged.                                                              *)
(***************************************************************************)
C15_MidpointFixed ==
    (px_res # "none" /\ Kind(px_op) = "Contrast") =>
        /\ px_out[4] = px_in[4]
        /\ \A c \in 1..3 :
              /\ px_out[c] = Add32(Mul32(ContrastFactor(Args(px_op)[1]),
                                         Sub32(px_in[c], Lit32(1, 2))),
                                   Lit32(1, 2))
              /\ px_in[c] = Lit32(1, 2) => px_out[c] = Lit32(1, 2)

(***************************************************************************)
(* C16: Equalize((dark, bright)) maps the range [dark/255, bright/255] of  *)
(* R, G and B onto [0, 1]: a channel equal to dark/255 becomes 0, a        *)
(* channel equal to bright/255 becomes 1, and alpha is unchanged.          *)
(***************************************************************************)
C16_SourceRangeOntoUnit ==
    (px_res # "none" /\ Kind(px_op) = "Equalize") =>
        /\ px_out[4] = px_in[4]
        /\ \A c \in 1..3 :
              /\ px_in[c] = Div32(FromInt(Args(px_op)[1]), F255) => IsZero(px_out[c])
              /\ px_in[c] = Div32(FromInt(Args(px_op)[2]), F255) => px_out[c] = One32

(***************************************************************************)
(* C17: process_pixels stores each channel as the normalized value times   *)
(* 255 with the fractional part discarded, saturated to the 8-bit range:   *)
(* a product below 0 is stored as 0, one above 255 as 255, and one in      *)
(* between as the byte b with b <= product < b + 1.                        *)
(***************************************************************************)
\* The products float_pixel * 255 of pixel i when the stack has run.
Scaled(i) ==
    LET q == InStackOrder(operators, ToFloatPixel(orig[i]))
    IN  [c \in 1..4 |-> Mul32(q[c], F255)]

Stored(v, b) ==
    IF Less32(v, FromInt(0)) THEN b = 0
    ELSE IF Less32(F255, v) THEN b = ChannelMax
    ELSE /\ b \in 0..ChannelMax
         /\ ~Less32(v, FromInt(b))
         /\ Less32(v, FromInt(b + 1))

C17_TruncatedAndSaturated ==
    \A i \in 1..Len(buffer) :
        ~Pending(i) =>
            \A c \in 1..4 : ~IsNaN(Scaled(i)[c]) => Stored(Scaled(i)[c], buffer[i][c])

\* A finished sweep whose first pixel has a product below 0 stored as 0, one
\* above 255 stored as 255, and one that rounding would have stored as the
\* next byte.
C17_Witness ==
    /\ tasks = {}
    /\ \E c \in 1..3 : Less32(Scaled(1)[c], FromInt(0 - 1)) /\ buffer[1][c] = 0
    /\ \E c \in 1..3 : Less32(FromInt(ChannelMax + 1), Scaled(1)[c])
                         /\ buffer[1][c] = ChannelMax
    /\ \E c \in 1..3 :
          /\ buffer[1][c] \in 1..(ChannelMax - 1)
          /\ Less32(Add32(FromInt(buffer[1][c]), Lit32(1, 2)), Scaled(1)[c])

(***************************************************************************)
(* C18: MDiv on a pixel whose alpha is 0 is guarded: R, G and B remain     *)
(* finite, so no NaN or infinity reaches the operations after it or the    *)
(* conversion to bytes.                                                    *)
(***************************************************************************)
C18_ZeroAlphaGuarded ==
    (px_res # "none" /\ Kind(px_op) = "MDiv" /\ IsZero(px_in[4])) =>
        \A c \in 1..3 : IsFinite(px_out[c])

=============================================================================
